---- MODULE Spec2Model ----
(***************************************************************************)
(* ServerAdapter: the Firestore CRUD adapter injected into FireModel.      *)
(* Two revisions of the adapter are in the repository and both are         *)
(* modelled; cfg.rev says which one a behaviour runs:                      *)
(*   "index"  src/index.js                                                 *)
(*   "part"   src/unnamed/part_000, lines 768-1483                         *)
(* The Firestore driver is outside the repository.  It is modelled by its  *)
(* documented contract: a transaction buffers its writes, its reads join   *)
(* a read set, and the commit applies the writes atomically unless a       *)
(* document of the read set was written by another commit in between.      *)
(***************************************************************************)
EXTENDS Integers, Sequences, FiniteSets, TLC

VARIABLES
  cfg,       \* static configuration of the behaviour: revision, prefix, model class flags
  primary,   \* the primary collection: docId -> stored document
  archive,   \* the `<collectionPath>_archive` collection: docId -> stored document
  counter,   \* the Autonumbers/<collectionPath> document
  children,  \* dependent records: pairs <<relation index, referenced docId>>
  now,       \* the wall clock read by `new Date()`
  inst,      \* the FireModel instance (`this`) of each call chain
  pc,        \* where each call chain stands
  call,      \* arguments, locals and transaction of the running operation
  res,       \* the outcome an operation has just returned to its caller (NoRes otherwise)
  calls,     \* number of operations started so far
  moved,     \* history: per docId, the document the last committed logical delete removed
  issued     \* history: the codes committed by autonumbering creates, in commit order

vars == <<cfg, primary, archive, counter, children, now, inst, pc, call, res, calls, moved, issued>>

store == <<primary, archive, counter>>

----------------------------------------------------------------------------
(* Bounds of the model *)

MaxCalls == 3      \* operations started in one behaviour
MaxClock == 2      \* largest value the clock reaches
MaxAttempts == 2   \* attempts the driver gives one transaction body

Procs == {"p1", "p2"}
ChosenIds == {"a"}
GenIds == {"g1"}
Ids == ChosenIds \cup GenIds
NoId == ""
Rels == <<"orders", "invoices">>
SystemActor == "cloud functions"

----------------------------------------------------------------------------
(* Values *)

Absent == [exists |-> FALSE]
NoCode == << >>
NoTime == 0

DefaultInst ==
  [docId |-> NoId, code |-> NoCode, val |-> 0,
   createdAt |-> NoTime, updatedAt |-> NoTime, uid |-> ""]

\* converter().toFirestore(this): the fields of the instance as a stored document
toFirestore(i) ==
  [exists |-> TRUE, docId |-> i.docId, code |-> i.code, val |-> i.val,
   createdAt |-> i.createdAt, updatedAt |-> i.updatedAt, uid |-> i.uid]

\* initialize(data): the stored fields loaded into the instance, or the defaults
initialize(d) ==
  IF d.exists
    THEN [docId |-> d.docId, code |-> d.code, val |-> d.val,
          createdAt |-> d.createdAt, updatedAt |-> d.updatedAt, uid |-> d.uid]
    ELSE DefaultInst

RECURSIVE Pow10(_)
Pow10(n) == IF n = 0 THEN 1 ELSE 10 * Pow10(n - 1)

\* String(n): the decimal digits of n
RECURSIVE Digits(_)
Digits(n) == IF n < 10 THEN <<n>> ELSE Append(Digits(n \div 10), n % 10)

\* s.padStart(len, "0")
RECURSIVE padStart(_, _)
padStart(s, len) == IF Len(s) >= len THEN s ELSE padStart(<<0>> \o s, len)

\* `new Date()`: where the behaviour lets the clock run (cfg.ticks), it may have
\* advanced since it was last read
Ticks(t) == {u \in {t, t + 1} : u = t \/ (cfg.ticks /\ u <= MaxClock)}

----------------------------------------------------------------------------
(* The driver's transactions *)

Key(coll, id, rel) == <<coll, id, rel>>

\* transaction.set / transaction.update / transaction.delete: one buffered write
Write(kind, coll, id, data) == [kind |-> kind, coll |-> coll, id |-> id, data |-> data]

WrittenKeys(ws) == {Key(ws[k].coll, ws[k].id, 0) : k \in DOMAIN ws}

\* a collection after the buffered writes were applied in the order they were issued
RECURSIVE ApplyTo(_, _, _)
ApplyTo(coll, f, ws) ==
  IF ws = << >> THEN f
  ELSE LET w == Head(ws)
           g == IF w.coll # coll THEN f
                ELSE IF w.kind = "delete" THEN [f EXCEPT ![w.id] = Absent]
                ELSE [f EXCEPT ![w.id] = w.data]
       IN ApplyTo(coll, g, Tail(ws))

\* the counter document after the buffered `update(docRef, {current: n})` writes
RECURSIVE CounterAfter(_, _)
CounterAfter(c, ws) ==
  IF ws = << >> THEN c
  ELSE LET w == Head(ws)
       IN CounterAfter(IF w.coll = "counter" /\ w.kind = "update"
                         THEN [c EXCEPT !.current = w.data] ELSE c,
                       Tail(ws))

\* transaction.update on a document that does not exist fails the commit
UpdatesExisting(ws) ==
  \A k \in DOMAIN ws : (ws[k].coll = "counter" /\ ws[k].kind = "update") => counter.exists

IdleCall ==
  [op |-> "none", docId |-> NoId, useAuto |-> FALSE, cb |-> "none", attempts |-> 0,
   reads |-> {}, writes |-> << >>, conflicted |-> FALSE, rel |-> 0,
   ref |-> NoId, log |-> << >>, handle |-> "own", failed |-> "none"]

NoRes ==
  [proc |-> "", op |-> "none", ok |-> TRUE, err |-> "none", arg |-> NoId, ref |-> NoId,
   rel |-> "", attempts |-> 0, log |-> << >>, found |-> FALSE, data |-> Absent,
   input |-> << >>, output |-> << >>, cb |-> "none", useAuto |-> FALSE]

\* the operation of p fails with err: c holds its arguments and locals at that point
\* (ref is the document the operation worked on; it is returned only on success; cb and
\* useAuto repeat the arguments of the call where the behaviour keeps them, cfg.echo)
Failure(p, c, err) ==
  [proc |-> p, op |-> c.op, ok |-> FALSE, err |-> err, arg |-> c.docId, ref |-> c.ref,
   rel |-> "", attempts |-> c.attempts, log |-> c.log, found |-> FALSE, data |-> Absent,
   input |-> << >>, output |-> << >>,
   cb |-> IF cfg.echo THEN c.cb ELSE "none", useAuto |-> cfg.echo /\ c.useAuto]

\* the operation of p returns
Success(p, c) ==
  [proc |-> p, op |-> c.op, ok |-> TRUE, err |-> "none", arg |-> c.docId, ref |-> c.ref,
   rel |-> "", attempts |-> c.attempts, log |-> c.log, found |-> FALSE, data |-> Absent,
   input |-> << >>, output |-> << >>,
   cb |-> IF cfg.echo THEN c.cb ELSE "none", useAuto |-> cfg.echo /\ c.useAuto]

\* the arguments of a call of op, before its body has run
Args(op, docId, useAuto, cb) ==
  [IdleCall EXCEPT !.op = op, !.docId = docId, !.useAuto = useAuto, !.cb = cb,
                   !.attempts = 1]

\* the operation of p ends without a commit: its locals are dropped, its buffered
\* writes with them, and r goes to the caller
Finish(p, r) ==
  /\ pc' = [pc EXCEPT ![p] = "idle"]
  /\ call' = [call EXCEPT ![p] = IdleCall]
  /\ res' = r
  /\ UNCHANGED <<store, moved, issued>>

\* the operation of p goes on at label l with locals c
Goto(p, l, c) ==
  /\ pc' = [pc EXCEPT ![p] = l]
  /\ call' = [call EXCEPT ![p] = c]
  /\ res' = NoRes
  /\ UNCHANGED <<store, moved, issued>>

\* the operation of p returns r to a caller that passed its own transaction: the
\* transaction stays open, in the caller's hands, with what the operation issued on it
Hold(p, c, r) ==
  /\ pc' = [pc EXCEPT ![p] = "held"]
  /\ call' = [call EXCEPT ![p] = c]
  /\ res' = r
  /\ UNCHANGED <<store, moved, issued>>

\* performTransaction has run to its end: `transaction ? await performTransaction(
\* transaction) : await firestore.runTransaction(performTransaction)`
Return(p, c) ==
  IF c.handle = "caller" THEN Hold(p, c, Success(p, c)) ELSE Goto(p, "commit", c)

\* performTransaction throws err after it issued writes: runTransaction drops them, a
\* caller's transaction keeps them, and the catch block rethrows err
Throw(p, c, err) ==
  IF c.handle = "caller"
    THEN Hold(p, [c EXCEPT !.failed = err], Failure(p, c, err))
    ELSE Finish(p, Failure(p, c, err))

\* the name of each buffered write in the log of events
WriteEvent(w) ==
  CASE w.coll = "primary" /\ w.kind = "set" -> "entityWrite"
    [] w.coll = "primary" /\ w.kind = "delete" -> "primaryDelete"
    [] w.coll = "archive" /\ w.kind = "set" -> "archiveWrite"
    [] w.coll = "archive" /\ w.kind = "delete" -> "archiveDelete"
    [] w.coll = "counter" -> "counterWrite"

\* locals c after the writes ws were issued on the transaction, in their order
Stage(c, ws) ==
  [c EXCEPT !.writes = @ \o ws, !.log = @ \o [k \in DOMAIN ws |-> WriteEvent(ws[k])]]

\* locals c after event e
Log(c, e) == [c EXCEPT !.log = Append(@, e)]

\* the values callers pass as callBack: none, a function that returns ("ok") or throws,
\* a truthy value that is no function ("invalid"), a falsy one other than null ("falsy")
NonCallable == {"invalid", "falsy"}

\* `callBack !== null && typeof callBack !== "function"`; in create of part_000
\* `callBack && typeof callBack !== "function"`, which lets falsy values through
CallBackRejected(op, cb) ==
  IF op = "create" /\ cfg.rev = "part" THEN cb = "invalid" ELSE cb \in NonCallable

\* locals c after `if (callBack) await callBack(txn)`
CallBack(c) == IF c.cb \notin {"none", "falsy"} THEN Log(c, "callBack") ELSE c

\* the running transactions of the others, marked where they read a key now written
Invalidate(p, keys, c) ==
  [q \in Procs |->
     IF q # p /\ c[q].reads \cap keys # {} THEN [c[q] EXCEPT !.conflicted = TRUE] ELSE c[q]]

\* one more operation is started
Started ==
  /\ calls < cfg.maxCalls
  /\ calls' = calls + 1

----------------------------------------------------------------------------
(* setAutonumber *)

\* setAutonumber with the capacity test one too high: `newNumber > 10^length`
AutonumberErrorLate(c) ==
  IF cfg.rev = "part" /\ ~cfg.prefix THEN "InvalidArgument"
  ELSE IF ~c.exists THEN "NotFound"
  ELSE IF ~c.status THEN "Disabled"
  ELSE IF c.current + 1 > Pow10(c.length) THEN "Overflow"
  ELSE "none"

\* setAutonumber without the test of data.status
AutonumberErrorNoStatus(c) ==
  IF cfg.rev = "part" /\ ~cfg.prefix THEN "InvalidArgument"
  ELSE IF ~c.exists THEN "NotFound"
  ELSE IF c.current + 1 > Pow10(c.length) - 1 THEN "Overflow"
  ELSE "none"

\* setAutonumber without the capacity test
AutonumberErrorUnchecked(c) ==
  IF cfg.rev = "part" /\ ~cfg.prefix THEN "InvalidArgument"
  ELSE IF ~c.exists THEN "NotFound"
  ELSE IF ~c.status THEN "Disabled"
  ELSE "none"

\* the failure setAutonumber raises on counter document c, or "none"
AutonumberError(c) ==
  IF cfg.rev = "part" /\ ~cfg.prefix THEN "InvalidArgument"
  ELSE IF ~c.exists THEN "NotFound"
  ELSE IF ~c.status THEN "Disabled"
  ELSE IF c.current + 1 > Pow10(c.length) - 1 THEN "Overflow"
  ELSE "none"

newNumber(c) == c.current + 1

newCode(c) == padStart(Digits(newNumber(c)), c.length)

\* docRef.get() beside the transaction: the counter document joins no read set
AutonumberReadOutside == {}

\* transaction.get(docRef): the counter document joins the read set of the transaction
AutonumberReadSet == {Key("counter", NoId, 0)}

\* the events of a failing setAutonumber: the prefix check of part_000 precedes the read
AutonumberFailLog == IF cfg.rev = "part" /\ ~cfg.prefix THEN << >> ELSE <<"counterRead">>

----------------------------------------------------------------------------
(* create *)

\* the ids a document, a dependent record, or another call chain refers to
LiveIds(p) ==
  {d \in Ids : primary[d].exists \/ archive[d].exists}
    \cup {c[2] : c \in children}
    \cup {inst[q].docId : q \in Procs \ {p}}
    \cup {call[q].docId : q \in Procs \ {p}}
    \cup {call[q].ref : q \in Procs \ {p}}

\* colRef.doc(docId) or colRef.doc(): the caller's id, or an id the store generates
DocRefIds(p, docId) ==
  IF docId # NoId THEN {docId}
  ELSE LET free == GenIds \ LiveIds(p)
       IN IF free = {} THEN {} ELSE {CHOOSE g \in free : TRUE}

\* create whose deferred commit writes `current: newNumber + 1`
CreateWritesSkip(auto, id, i, c) ==
  <<Write("set", "primary", id, toFirestore(i))>>
    \o (IF auto THEN <<Write("update", "counter", NoId, newNumber(c) + 1)>> ELSE << >>)

\* create whose deferred commit writes back the number it read: `current: data.current`
CreateWritesStale(auto, id, i, c) ==
  <<Write("set", "primary", id, toFirestore(i))>>
    \o (IF auto THEN <<Write("update", "counter", NoId, c.current)>> ELSE << >>)

\* create that invokes the deferred commit of the allocator before txn.set(docRef, this)
CreateWritesCounterFirst(auto, id, i, c) ==
  (IF auto THEN <<Write("update", "counter", NoId, newNumber(c))>> ELSE << >>)
    \o <<Write("set", "primary", id, toFirestore(i))>>

\* the writes performTransaction of create buffers, in the order the code issues them
CreateWrites(auto, id, i, c) ==
  <<Write("set", "primary", id, toFirestore(i))>>
    \o (IF auto THEN <<Write("update", "counter", NoId, newNumber(c))>> ELSE << >>)

\* create that calls the allocator whatever the caller's option says
UsesAutonumberAlways(useAutonumber) == cfg.useAutonumber

\* this.constructor.useAutonumber && useAutonumber
UsesAutonumber(useAutonumber) == cfg.useAutonumber /\ useAutonumber

\* one run of performTransaction of create, for the arguments kept in record a
CreateBody(p, a) ==
  LET auto == UsesAutonumber(a.useAuto)
      aerr == IF auto THEN AutonumberError(counter) ELSE "none"
  IN IF aerr # "none"
       THEN /\ Finish(p, Failure(p, [a EXCEPT !.log = AutonumberFailLog], aerr))
            /\ UNCHANGED <<inst, now>>
       ELSE \E id \in DocRefIds(p, a.docId), t1 \in Ticks(now) : \E t2 \in Ticks(t1) :
              LET i1 == [inst[p] EXCEPT !.code = IF auto THEN newCode(counter) ELSE @,
                                        !.docId = id, !.createdAt = t1,
                                        !.updatedAt = t2, !.uid = SystemActor]
                  c0 == [a EXCEPT !.reads = IF auto THEN AutonumberReadSet ELSE {},
                                  !.writes = << >>, !.conflicted = FALSE, !.ref = id,
                                  !.log = IF auto THEN <<"counterRead", "stampCode">>
                                                  ELSE << >>]
                  c1 == CallBack(Stage(c0, CreateWrites(auto, id, i1, counter)))
              IN /\ inst' = [inst EXCEPT ![p] = i1]
                 /\ now' = t2
                 /\ IF a.cb = "throws"
                      THEN Throw(p, c1, "Callback")
                      ELSE Return(p, c1)

\* create({docId, useAutonumber, transaction: null, callBack, prefix})
Create(p) ==
  /\ pc[p] = "idle"
  /\ Started
  /\ \E docId \in ChosenIds \cup {NoId}, useAuto \in cfg.callerAuto,
        cb \in cfg.callBacks, hooks \in {"ok", "fail"}, transaction \in cfg.handles :
       IF CallBackRejected("create", cb)
         THEN Finish(p, Failure(p, Args("create", docId, useAuto, cb), "InvalidArgument"))
                /\ UNCHANGED <<inst, now>>
       ELSE IF hooks = "fail"
         THEN Finish(p, Failure(p, Args("create", docId, useAuto, cb), "Hook"))
                /\ UNCHANGED <<inst, now>>
         ELSE CreateBody(p, [Args("create", docId, useAuto, cb)
                               EXCEPT !.handle = transaction])
  /\ UNCHANGED <<cfg, children>>

----------------------------------------------------------------------------
(* update *)

\* beforeUpdate(args) / beforeDelete(args): in part_000 `args` is no binding of update()
\* or delete(), so evaluating the argument raises a ReferenceError before the hook runs
ArgsBound == cfg.rev = "index"

\* update({transaction: null, callBack, prefix})
Update(p) ==
  /\ pc[p] = "idle"
  /\ Started
  /\ \E cb \in cfg.callBacks, hooks \in {"ok", "fail"}, transaction \in cfg.handles :
       LET a == [Args("update", NoId, FALSE, cb) EXCEPT !.handle = transaction]
       IN IF CallBackRejected("update", cb)
            THEN Finish(p, Failure(p, a, "InvalidArgument")) /\ UNCHANGED <<inst, now>>
          ELSE IF inst[p].docId = NoId
            THEN Finish(p, Failure(p, a, "PreconditionFailed")) /\ UNCHANGED <<inst, now>>
          ELSE IF ~ArgsBound
            THEN Finish(p, Failure(p, a, "ReferenceError")) /\ UNCHANGED <<inst, now>>
          ELSE IF hooks = "fail"
            THEN Finish(p, Failure(p, a, "Hook")) /\ UNCHANGED <<inst, now>>
          ELSE \E t \in Ticks(now) :
                 LET i1 == [inst[p] EXCEPT !.updatedAt = t, !.uid = SystemActor]
                     c1 == CallBack(Stage([a EXCEPT !.ref = i1.docId],
                             <<Write("set", "primary", i1.docId, toFirestore(i1))>>))
                 IN /\ inst' = [inst EXCEPT ![p] = i1]
                    /\ now' = t
                    /\ IF cb = "throws"
                         THEN Throw(p, c1, "Callback")
                         ELSE Return(p, c1)
  /\ UNCHANGED <<cfg, children>>

----------------------------------------------------------------------------
(* hasChild and delete *)

\* hasChild reads through the transaction in index.js, and beside it in part_000
HasChildInTransaction == cfg.rev = "index"

\* hasChild that returns after the query on the first relation
ChildMatchFirst(r, d) == r = 1 /\ <<r, d>> \in children

\* hasChild whose query leaves out the relation's collection
ChildMatchAny(r, d) == \E q \in DOMAIN Rels : <<q, d>> \in children

\* queryRef.get(): whether relation r holds a record whose field equals docId d
ChildMatch(r, d) == <<r, d>> \in children

\* delete that calls docRef.delete() on the store instead of txn.delete(docRef)
DeleteStageDirect(p, c) ==
  LET c1 == CallBack(Log(c, "primaryDelete"))
  IN /\ primary' = [primary EXCEPT ![c.ref] = Absent]
     /\ call' = [call EXCEPT ![p] = IF c.cb = "throws" THEN IdleCall ELSE c1]
     /\ pc' = [pc EXCEPT ![p] = IF c.cb = "throws" THEN "idle" ELSE "commit"]
     /\ res' = IF c.cb = "throws" THEN Failure(p, c1, "Callback") ELSE NoRes
     /\ UNCHANGED <<archive, counter, moved, issued>>

\* delete without txn.delete(docRef)
DeleteStageKeepPrimary(p, c) ==
  IF c.cb = "throws"
    THEN Finish(p, Failure(p, CallBack(c), "Callback"))
    ELSE Goto(p, "commit", CallBack(c))

\* txn.delete(docRef) and the callback: the end of performTransaction of delete
DeleteStage(p, c) ==
  LET c1 == CallBack(Stage(c, <<Write("delete", "primary", c.ref, Absent)>>))
  IN IF c.cb = "throws"
       THEN Throw(p, c1, "Callback")
       ELSE Return(p, c1)

\* delete({transaction: null, callBack, prefix}) up to the start of its transaction
Delete(p) ==
  /\ pc[p] = "idle"
  /\ Started
  /\ \E cb \in cfg.callBacks, hooks \in {"ok", "fail"}, transaction \in cfg.handles :
       LET a == [Args("delete", NoId, FALSE, cb) EXCEPT !.handle = transaction]
       IN IF CallBackRejected("delete", cb)
            THEN Finish(p, Failure(p, a, "InvalidArgument"))
          ELSE IF inst[p].docId = NoId
            THEN Finish(p, Failure(p, a, "PreconditionFailed"))
          ELSE IF ~ArgsBound
            THEN Finish(p, Failure(p, a, "ReferenceError"))
          ELSE IF hooks = "fail"
            THEN Finish(p, Failure(p, a, "Hook"))
          ELSE Goto(p, "hasChild", [a EXCEPT !.rel = 1, !.ref = inst[p].docId])
  /\ UNCHANGED <<cfg, children, now, inst>>

\* hasChild without the test of this.docId
HasChildCallUnchecked(p) ==
  /\ pc[p] = "idle"
  /\ Started
  /\ Goto(p, "hasChild",
          [Args("hasChild", NoId, FALSE, "none") EXCEPT !.rel = 1, !.ref = inst[p].docId])
  /\ UNCHANGED <<cfg, children, now, inst>>

\* hasChild({transaction: null, prefix}) called by itself, up to its first query
HasChildCall(p) ==
  /\ pc[p] = "idle"
  /\ Started
  /\ LET a == Args("hasChild", NoId, FALSE, "none")
     IN IF inst[p].docId = NoId
          THEN Finish(p, Failure(p, a, "PreconditionFailed"))
          ELSE Goto(p, "hasChild", [a EXCEPT !.rel = 1, !.ref = inst[p].docId])
  /\ UNCHANGED <<cfg, children, now, inst>>

\* one turn of the loop of hasChild: the query on relation call[p].rel, read through the
\* transaction where delete passed one and the revision uses it
HasChild(p) ==
  /\ pc[p] = "hasChild"
  /\ LET c == call[p]
         r == c.rel
         c1 == Log([c EXCEPT !.reads = IF HasChildInTransaction /\ c.op = "delete"
                                         THEN @ \cup {Key("children", c.ref, r)} ELSE @],
                   "childQuery")
     IN IF ChildMatch(r, c.ref)
          THEN IF c.op = "hasChild"
                 THEN Finish(p, [Success(p, c1) EXCEPT !.rel = Rels[r], !.found = TRUE])
                 ELSE Finish(p, [Failure(p, c1, "DependencyExists") EXCEPT !.rel = Rels[r]])
        ELSE IF r < Len(Rels)
          THEN Goto(p, "hasChild", [c1 EXCEPT !.rel = r + 1])
        ELSE IF c.op = "hasChild"
          THEN Finish(p, Success(p, c1))
        ELSE IF cfg.logicalDelete
          THEN Goto(p, "sourceRead", c1)
        ELSE DeleteStage(p, c1)
  /\ UNCHANGED <<cfg, children, now, inst, calls>>

\* delete that archives without the test of sourceDocSnap.exists
SourceMissingUnchecked(sourceDocSnap) == FALSE

\* !sourceDocSnap.exists
SourceMissing(sourceDocSnap) == ~sourceDocSnap.exists

\* delete that archives the fields of the calling instance: txn.set(archiveDocRef, this)
sourceDocDataOfInstance(p, sourceDocSnap) == toFirestore(inst[p])

\* const sourceDocData = sourceDocSnap.data()
sourceDocData(p, sourceDocSnap) == sourceDocSnap

\* logicalDelete: txn.get(docRef) and txn.set(archiveDocRef, sourceDocData)
SourceRead(p) ==
  /\ pc[p] = "sourceRead"
  /\ LET c == call[p]
         sourceDocSnap == primary[c.ref]
         c1 == Log([c EXCEPT !.reads = @ \cup {Key("primary", c.ref, 0)}], "sourceRead")
     IN IF SourceMissing(sourceDocSnap)
          THEN Finish(p, Failure(p, c1, "NotFound"))
          ELSE DeleteStage(p, Stage(c1, <<Write("set", "archive", c.ref,
                                              sourceDocData(p, sourceDocSnap))>>))
  /\ UNCHANGED <<cfg, children, now, inst, calls>>

----------------------------------------------------------------------------
(* restore *)

\* restore without the test of docSnapshot.exists
ArchiveMissingUnchecked(docSnapshot) == FALSE

\* !docSnapshot.exists
ArchiveMissing(docSnapshot) == ~docSnapshot.exists

\* restore whose batch holds only batch.delete(archiveDocRef)
RestoreWritesArchiveOnly(docId, docSnapshot) ==
  <<Write("delete", "archive", docId, Absent)>>

\* restore without batch.delete(archiveDocRef)
RestoreWritesKeepArchive(docId, docSnapshot) ==
  <<Write("set", "primary", docId, docSnapshot)>>

\* batch.delete(archiveDocRef); batch.set(docRef, docSnapshot.data())
RestoreWrites(docId, docSnapshot) ==
  <<Write("delete", "archive", docId, Absent), Write("set", "primary", docId, docSnapshot)>>

\* restore of part_000 takes a `transaction`; restore of index.js has no such parameter
\* and commits its own batch whatever the caller passes
RestoreTakesHandle == cfg.rev = "part"

\* restore({docId, prefix, transaction}): archiveDocRef.get(), then the batch (index.js)
\* or the transaction (part_000) that deletes the archive record and sets the primary one
Restore(p) ==
  /\ pc[p] = "idle"
  /\ Started
  /\ \E docId \in Ids \cup {NoId}, transaction \in cfg.handles :
       LET a == [Args("restore", docId, FALSE, "none") EXCEPT !.handle = transaction]
       IN IF docId = NoId
            THEN Finish(p, Failure(p, a, "InvalidArgument"))
          ELSE LET docSnapshot == archive[docId]
                   a1 == Log([a EXCEPT !.ref = docId], "archiveRead")
                   a2 == Stage(a1, RestoreWrites(docId, docSnapshot))
               IN IF ArchiveMissing(docSnapshot)
                    THEN Finish(p, Failure(p, a1, "NotFound"))
                    ELSE IF RestoreTakesHandle THEN Return(p, a2) ELSE Goto(p, "commit", a2)
  /\ UNCHANGED <<cfg, children, now, inst>>

----------------------------------------------------------------------------
(* the driver ends a transaction *)

Logged(c, e) == \E k \in DOMAIN c.log : c.log[k] = e

\* the body of the running operation is run again from its start
Retry(p) ==
  LET a == [call[p] EXCEPT !.attempts = @ + 1]
  IN IF a.op = "create"
       THEN CreateBody(p, a)
       ELSE /\ Goto(p, "hasChild", [a EXCEPT !.reads = {}, !.writes = << >>, !.log = << >>,
                                             !.conflicted = FALSE, !.rel = 1])
            /\ UNCHANGED <<inst, now>>

\* history: the document the last committed logical delete of each docId removed
MovedAfter(c) ==
  IF c.op = "delete" /\ Logged(c, "archiveWrite") THEN [moved EXCEPT ![c.ref] = primary[c.ref]]
  ELSE moved

\* history: the code a committed autonumbering create carries
IssuedAfter(c) ==
  IF c.op = "create" /\ Logged(c, "counterWrite")
    THEN Append(issued, ApplyTo("primary", primary, c.writes)[c.ref].code) ELSE issued

\* the writes of p are applied as one unit
CommitWrites(p) ==
  LET c == call[p]
  IN /\ primary' = ApplyTo("primary", primary, c.writes)
     /\ archive' = ApplyTo("archive", archive, c.writes)
     /\ counter' = CounterAfter(counter, c.writes)
     /\ pc' = [pc EXCEPT ![p] = "idle"]
     /\ call' = [Invalidate(p, WrittenKeys(c.writes), call) EXCEPT ![p] = IdleCall]
     /\ res' = Success(p, c)
     /\ moved' = MovedAfter(c)
     /\ issued' = IssuedAfter(c)

\* runTransaction / batch.commit: the commit, the rerun after a conflict, or the failure
Commit(p) ==
  /\ pc[p] = "commit"
  /\ \/ /\ ~call[p].conflicted
        /\ UpdatesExisting(call[p].writes)
        /\ CommitWrites(p)
        /\ UNCHANGED <<inst, now>>
     \/ /\ call[p].conflicted
        /\ call[p].attempts < MaxAttempts
        /\ Retry(p)
     \/ /\ Finish(p, Failure(p, call[p], "StoreFailure"))
        /\ UNCHANGED <<inst, now>>
  /\ UNCHANGED <<cfg, children, calls>>

\* the caller's transaction commits what the operation issued on it
CallerCommit(p) ==
  /\ pc[p] = "held"
  /\ ~call[p].conflicted
  /\ UpdatesExisting(call[p].writes)
  /\ LET c == call[p]
     IN /\ primary' = ApplyTo("primary", primary, c.writes)
        /\ archive' = ApplyTo("archive", archive, c.writes)
        /\ counter' = CounterAfter(counter, c.writes)
        /\ pc' = [pc EXCEPT ![p] = "idle"]
        /\ call' = [Invalidate(p, WrittenKeys(c.writes), call) EXCEPT ![p] = IdleCall]
        /\ res' = [Success(p, c) EXCEPT !.op = "runTransaction"]
        /\ moved' = MovedAfter(c)
        /\ issued' = IssuedAfter(c)
  /\ UNCHANGED <<cfg, children, now, inst, calls>>

\* the caller's transaction is aborted: by the failure the caller lets through, by a
\* failure of its own, or by the store
CallerAbort(p) ==
  /\ pc[p] = "held"
  /\ Finish(p, [Failure(p, call[p], "StoreFailure") EXCEPT !.op = "runTransaction"])
  /\ UNCHANGED <<cfg, children, now, inst, calls>>

\* transaction.get on a transaction that has buffered writes.  The driver the adapter is
\* run with, firebase-admin, refuses it ("Firestore transactions require all reads to be
\* executed before all writes"); under the snapshot isolation the transactions are
\* specified with, the read is answered from the committed store, which does not hold
\* the buffered writes
ReadAfterWrite == {"refused", "committed"}

\* the ids the writes ws are addressed to
WrittenIds(ws) == {ws[k].id : k \in DOMAIN ws}

\* create({docId, useAutonumber, transaction: txn, callBack, prefix}) where txn is the
\* caller's transaction on which an earlier create has returned: the reads, the writes
\* and the events of this create are added to those the transaction already holds
CreateHeld(p) ==
  /\ pc[p] = "held"
  /\ call[p].op = "create" /\ call[p].failed = "none"
  /\ Started
  /\ \E docId \in ChosenIds \cup {NoId}, useAuto \in cfg.callerAuto,
        cb \in cfg.callBacks, hooks \in {"ok", "fail"}, get \in ReadAfterWrite :
       LET c == call[p]
           a == [c EXCEPT !.docId = docId, !.useAuto = useAuto, !.cb = cb, !.ref = NoId]
           auto == UsesAutonumber(useAuto)
           free == GenIds \ (LiveIds(p) \cup WrittenIds(c.writes))
           ids == IF docId # NoId THEN {docId}
                  ELSE IF free = {} THEN {} ELSE {CHOOSE g \in free : TRUE}
           aerr == IF ~auto THEN "none"
                   ELSE IF c.writes # << >> /\ get = "refused" THEN "ReadAfterWrite"
                   ELSE AutonumberError(counter)
       IN IF CallBackRejected("create", cb)
            THEN Hold(p, [c EXCEPT !.failed = "InvalidArgument"],
                      Failure(p, a, "InvalidArgument")) /\ UNCHANGED <<inst, now>>
          ELSE IF hooks = "fail"
            THEN Hold(p, [c EXCEPT !.failed = "Hook"], Failure(p, a, "Hook"))
                   /\ UNCHANGED <<inst, now>>
          ELSE IF aerr # "none"
            THEN Hold(p, [c EXCEPT !.failed = aerr], Failure(p, a, aerr))
                   /\ UNCHANGED <<inst, now>>
          ELSE \E id \in ids, t1 \in Ticks(now) : \E t2 \in Ticks(t1) :
                 LET i1 == [inst[p] EXCEPT !.code = IF auto THEN newCode(counter) ELSE @,
                                           !.docId = id, !.createdAt = t1,
                                           !.updatedAt = t2, !.uid = SystemActor]
                     c0 == [a EXCEPT !.reads = IF auto THEN @ \cup AutonumberReadSet ELSE @,
                                     !.ref = id,
                                     !.log = IF auto THEN @ \o <<"counterRead", "stampCode">>
                                                     ELSE @]
                     c1 == CallBack(Stage(c0, CreateWrites(auto, id, i1, counter)))
                 IN /\ inst' = [inst EXCEPT ![p] = i1]
                    /\ now' = t2
                    /\ IF cb = "throws"
                         THEN Throw(p, c1, "Callback")
                         ELSE Return(p, c1)
  /\ UNCHANGED <<cfg, children>>

----------------------------------------------------------------------------
(* fetch, and what happens around the adapter *)

\* fetch that leaves the instance alone when the document does not exist
FetchedInstKept(i, docSnap) == IF docSnap.exists THEN initialize(docSnap) ELSE i

\* this.initialize(docSnap.exists ? docSnap.data() : null) on instance i
FetchedInst(i, docSnap) == initialize(docSnap)

\* fetch({docId, transaction: null, prefix})
Fetch(p) ==
  /\ pc[p] = "idle"
  /\ Started
  /\ \E docId \in Ids \cup {NoId} :
       LET a == Args("fetch", docId, FALSE, "none")
       IN IF docId = NoId
            THEN Finish(p, Failure(p, a, "InvalidArgument")) /\ UNCHANGED inst
            ELSE /\ inst' = [inst EXCEPT ![p] = FetchedInst(inst[p], primary[docId])]
                 /\ Finish(p, [Success(p, [a EXCEPT !.log = <<"primaryRead">>])
                                 EXCEPT !.ref = IF primary[docId].exists THEN docId ELSE NoId,
                                        !.found = primary[docId].exists])
  /\ UNCHANGED <<cfg, children, now>>

\* fetchDoc that returns an entity of defaults where the document does not exist
FetchDocDataDefault(docSnap) == IF docSnap.exists THEN docSnap ELSE toFirestore(DefaultInst)

\* docSnap.exists ? docSnap.data() : null
FetchDocData(docSnap) == IF docSnap.exists THEN docSnap ELSE Absent

\* fetchDoc({docId, transaction: null, prefix})
FetchDoc(p) ==
  /\ pc[p] = "idle"
  /\ Started
  /\ \E docId \in Ids \cup {NoId} :
       LET a == Args("fetchDoc", docId, FALSE, "none")
       IN IF docId = NoId
            THEN Finish(p, Failure(p, a, "InvalidArgument"))
            ELSE Finish(p, [Success(p, [a EXCEPT !.log = <<"primaryRead">>])
                              EXCEPT !.data = FetchDocData(primary[docId])])
  /\ UNCHANGED <<cfg, children, now, inst>>

\* unsubscribe that returns where there is nothing to stop
ThrowsButUnsubscribe(name) == name # "unsubscribe"

\* unsubscribe(), subscribe(), subscribeDocs(): the body is one `throw new Error(...)`
Throws(name) == TRUE

\* unsubscribe() / subscribe() / subscribeDocs()
Subscribe(p) ==
  /\ pc[p] = "idle"
  /\ Started
  /\ \E name \in {"unsubscribe", "subscribe", "subscribeDocs"} :
       LET a == Args(name, NoId, FALSE, "none")
       IN IF Throws(name)
            THEN Finish(p, Failure(p, a, "Unsupported"))
            ELSE Finish(p, Success(p, a))
  /\ UNCHANGED <<cfg, children, now, inst>>

----------------------------------------------------------------------------
(* createQueries and createTokenMapQueries *)

MaxText == 3          \* code units of a search string
MaxConstraints == 2   \* tuples of a constraints array

\* the code units of the search strings: two letters, a blank, a metacharacter, and "H"
\* and "L" for a high and a low surrogate code unit
Chars == {"a", "b", " ", "~", "H", "L"}

Texts == UNION {[1..n -> Chars] : n \in 0..MaxText}

\* the constraint tuples callers pass; a number is kept in tenths, with its typeof
Num(tenths) == [typeof |-> "number", tenths |-> tenths]

Tuples ==
  {<<"where", "age", ">=", Num(180)>>,
   <<"orderBy", "age">>, <<"orderBy", "age", "desc">>, <<"orderBy", "age", "up">>,
   <<"limit", Num(100)>>, <<"limit", Num(0)>>, <<"limit", Num(25)>>,
   <<"limit", [typeof |-> "string", tenths |-> 100]>>,
   <<"startAt", Num(10)>>}

Constraints == UNION {[1..n -> Tuples] : n \in 0..MaxConstraints}

\* `where`, `orderBy` and `limit` are called as free identifiers; the module imports only
\* `logger`, so evaluating a call of one of them raises a ReferenceError
QueryFunctionsBound == FALSE

\* one entry of the loop of createQueries: the predicate pushed, or the error thrown
QueryOf(constraint) ==
  LET type == constraint[1]
      args == Tail(constraint)
      direction == IF Len(args) >= 2 THEN args[2] ELSE "asc"
  IN CASE type = "where" ->
            IF QueryFunctionsBound
              THEN [err |-> "none", q |-> [type |-> "where", args |-> args]]
              ELSE [err |-> "ReferenceError"]
       [] type = "orderBy" ->
            IF direction \notin {"asc", "desc"} THEN [err |-> "InvalidArgument"]
            ELSE IF QueryFunctionsBound
              THEN [err |-> "none", q |-> [type |-> "orderBy", args |-> <<args[1], direction>>]]
              ELSE [err |-> "ReferenceError"]
       [] type = "limit" ->
            IF args[1].typeof # "number" \/ args[1].tenths <= 0 THEN [err |-> "InvalidArgument"]
            ELSE IF QueryFunctionsBound
              THEN [err |-> "none", q |-> [type |-> "limit", args |-> <<args[1]>>]]
              ELSE [err |-> "ReferenceError"]
       [] OTHER -> [err |-> "InvalidQueryType"]

\* constraints.forEach(...): result after the tuples from the k-th on, or the first throw
RECURSIVE createQueries(_, _, _)
createQueries(constraints, k, result) ==
  IF k > Len(constraints) THEN [err |-> "none", result |-> result]
  ELSE LET e == QueryOf(constraints[k])
       IN IF e.err # "none" THEN [err |-> e.err, result |-> << >>]
          ELSE createQueries(constraints, k + 1, Append(result, e.q))

\* createQueries(constraints)
CreateQueries(p) ==
  /\ pc[p] = "idle"
  /\ Started
  /\ \E constraints \in Constraints :
       LET a == Args("createQueries", NoId, FALSE, "none")
           r == createQueries(constraints, 1, << >>)
       IN IF r.err # "none"
            THEN Finish(p, [Failure(p, a, r.err) EXCEPT !.input = constraints])
            ELSE Finish(p, [Success(p, a) EXCEPT !.input = constraints, !.output = r.result])
  /\ UNCHANGED <<cfg, children, now, inst>>

\* constraints.trim().length === 0
Blank(text) == \A k \in DOMAIN text : text[k] = " "

\* /[\uD800-\uDBFF]|[\uDC00-\uDFFF]|~|\*|\[|\]|\s+/g
Removed(ch) == ch \in {"H", "L", "~", "*", "[", "]", " "}

\* constraints.replace(/.../g, "")
target(text) == SelectSeq(text, LAMBDA ch : ~Removed(ch))

\* s.substring(i, j), with i and j counted from 0
substring(s, i, j) == SubSeq(s, i + 1, IF j > Len(s) THEN Len(s) ELSE j)

\* list.slice(0, -1)
sliceLast(list) == SubSeq(list, 1, Len(list) - 1)

\* [...new Set(list)]: the first occurrence of every element, in order
RECURSIVE Dedup(_)
Dedup(list) ==
  IF list = << >> THEN << >>
  ELSE LET r == Dedup(SubSeq(list, 1, Len(list) - 1))
           l == list[Len(list)]
       IN IF \E k \in DOMAIN r : r[k] = l THEN r ELSE Append(r, l)

\* the 1-character tokens, then the 2-character tokens without the last, deduplicated
tokens(t) ==
  Dedup([i \in 1..Len(t) |-> substring(t, i - 1, i)]
          \o sliceLast([i \in 1..Len(t) |-> substring(t, i - 1, i + 1)]))

\* where(`tokenMap.${token}`, "==", true)
TokenQuery(token) == [type |-> "where", args |-> <<<<"tokenMap", token>>, "==", TRUE>>]

\* createTokenMapQueries(constraints)
CreateTokenMapQueries(p) ==
  /\ pc[p] = "idle"
  /\ Started
  /\ \E text \in Texts :
       LET a == Args("createTokenMapQueries", NoId, FALSE, "none")
           ts == tokens(target(text))
       IN IF Blank(text)
            THEN Finish(p, [Failure(p, a, "InvalidArgument") EXCEPT !.input = text])
          ELSE IF ts # << >> /\ ~QueryFunctionsBound
            THEN Finish(p, [Failure(p, a, "ReferenceError") EXCEPT !.input = text])
            ELSE Finish(p, [Success(p, a) EXCEPT
                              !.input = text,
                              !.output = [k \in DOMAIN ts |-> TokenQuery(ts[k])]])
  /\ UNCHANGED <<cfg, children, now, inst>>

----------------------------------------------------------------------------
(* the instance between the calls *)

\* the caller assigns a model field of the instance
Edit(p) ==
  /\ pc[p] = "idle"
  /\ inst[p].val = 0
  /\ inst' = [inst EXCEPT ![p].val = 1]
  /\ res' = NoRes
  /\ UNCHANGED <<cfg, store, children, now, pc, call, calls, moved, issued>>

\* another process creates a dependent record in relation r that references docId d
AddChild(r, d) ==
  /\ <<r, d>> \notin children
  /\ primary[d].exists
  /\ children' = children \cup {<<r, d>>}
  /\ call' = [q \in Procs |->
                IF Key("children", d, r) \in call[q].reads
                  THEN [call[q] EXCEPT !.conflicted = TRUE] ELSE call[q]]
  /\ res' = NoRes
  /\ UNCHANGED <<cfg, store, now, inst, pc, calls, moved, issued>>

----------------------------------------------------------------------------
(* Specifications *)

Counter(s, c, l) == [exists |-> TRUE, status |-> s, current |-> c, length |-> l]

\* one configuration: the revision, whether callers pass a prefix, the flags of the model
\* class, the useAutonumber options callers pass, the operations a behaviour may start,
\* whether the clock runs, and the counter document the behaviour starts from; callers
\* pass no callback, one that returns or one that throws, and no transaction, unless a
\* specification widens callBacks and handles; echo says whether the results repeat the
\* arguments of the call
Cfg(rev, prefix, ld, callerAuto, maxCalls, ticks, start) ==
  [rev |-> rev, prefix |-> prefix, logicalDelete |-> ld, useAutonumber |-> TRUE,
   callerAuto |-> callerAuto, maxCalls |-> maxCalls, ticks |-> ticks, start |-> start,
   callBacks |-> {"none", "ok", "throws"}, handles |-> {"own"}, echo |-> FALSE]

InitStore ==
  /\ counter = cfg.start
  /\ primary = [d \in Ids |-> Absent]
  /\ archive = [d \in Ids |-> Absent]
  /\ children = {}
  /\ now = 1
  /\ inst = [p \in Procs |-> DefaultInst]
  /\ pc = [p \in Procs |-> "idle"]
  /\ call = [p \in Procs |-> IdleCall]
  /\ res = NoRes
  /\ calls = 0
  /\ moved = [d \in Ids |-> Absent]
  /\ issued = << >>

\* Spec: both revisions, every operation, two call chains interleaved at every store
\* access.  index.js resolves the same path and takes the same steps with and without a
\* prefix, so it is run with one; part_000 is run with and without.  delete of part_000
\* fails before it reads logicalDelete, so part_000 is run with the flag set.  The
\* allocator and delete work on different documents: autonumbering is run with
\* logicalDelete, and the physical delete with callers that turn autonumbering off.
MainCfgs ==
  {Cfg("index", TRUE, ld, IF ld THEN BOOLEAN ELSE {FALSE}, MaxCalls, FALSE,
       Counter(TRUE, 7, 1)) : ld \in BOOLEAN}
    \cup {Cfg("part", px, TRUE, BOOLEAN, MaxCalls, FALSE, Counter(TRUE, 7, 1)) :
            px \in BOOLEAN}

Init ==
  /\ cfg \in MainCfgs
  /\ InitStore

Step(p) ==
  \/ Create(p)
  \/ Fetch(p)
  \/ Update(p)
  \/ Delete(p)
  \/ HasChild(p)
  \/ SourceRead(p)
  \/ Restore(p)
  \/ Commit(p)

Next ==
  \/ \E p \in Procs : Step(p)
  \/ \E r \in DOMAIN Rels, d \in ChosenIds : AddChild(r, d)

Spec == Init /\ [][Next]_vars

\* a call chain runs while every other one is idle
Serial(p) == \A q \in Procs \ {p} : pc[q] = "idle"

\* SpecAlloc: autonumbering creates one after the other, from counters of width 1 and 2
MaxAllocs == 4     \* creates started in one behaviour of SpecAlloc

AllocStarts ==
  {Counter(TRUE, 7, 1), Counter(TRUE, 8, 1), Counter(TRUE, 9, 1),
   Counter(TRUE, 8, 2), Counter(TRUE, 97, 2)}

AllocCfgs ==
  {Cfg(rev, TRUE, FALSE, {TRUE}, MaxAllocs, FALSE, s) :
     rev \in {"index", "part"}, s \in AllocStarts}

InitAlloc ==
  /\ cfg \in AllocCfgs
  /\ InitStore

NextAlloc == \E p \in Procs : Serial(p) /\ (Create(p) \/ Commit(p))

SpecAlloc == InitAlloc /\ [][NextAlloc]_vars

\* SpecSerial: every operation on a model class with logicalDelete, one call at a time,
\* with callers that edit their instance between the calls
MaxSerialCalls == 4   \* operations started in one behaviour of SpecSerial

SerialCfgs ==
  {Cfg(rev, TRUE, TRUE, {FALSE}, MaxSerialCalls, FALSE, Counter(TRUE, 7, 1)) :
     rev \in {"index", "part"}}

InitSerial ==
  /\ cfg \in SerialCfgs
  /\ InitStore

NextSerial ==
  \/ \E p \in Procs : Serial(p) /\ (Step(p) \/ Edit(p))
  \/ \E r \in DOMAIN Rels, d \in ChosenIds : AddChild(r, d)

SpecSerial == InitSerial /\ [][NextSerial]_vars

\* SpecCalls: every operation of the public surface called by one caller, with a clock
\* that runs, edits of the instance between the calls, and callbacks that are no functions
Caller == "p1"

CallsCfgs ==
  {[Cfg(rev, TRUE, TRUE, {FALSE}, MaxCalls, TRUE, Counter(TRUE, 7, 1))
      EXCEPT !.callBacks = @ \cup {"invalid"}] :
     rev \in {"index", "part"}}

InitCalls ==
  /\ cfg \in CallsCfgs
  /\ InitStore

NextCalls ==
  \/ Step(Caller) \/ HasChildCall(Caller) \/ FetchDoc(Caller) \/ Edit(Caller)
  \/ \E r \in DOMAIN Rels, d \in ChosenIds : AddChild(r, d)

SpecCalls == InitCalls /\ [][NextCalls]_vars

\* SpecHandle: one caller that passes its own transaction to the operations or none,
\* and that ends its transaction by a commit or an abort after the operation returned
\* or failed
HandleCfgs ==
  {[Cfg(rev, TRUE, TRUE, BOOLEAN, MaxCalls, FALSE, Counter(TRUE, 7, 1))
      EXCEPT !.handles = {"own", "caller"}] :
     rev \in {"index", "part"}}

InitHandle ==
  /\ cfg \in HandleCfgs
  /\ InitStore

NextHandle ==
  \/ Step(Caller) \/ CallerCommit(Caller) \/ CallerAbort(Caller)
  \/ \E r \in DOMAIN Rels, d \in ChosenIds : AddChild(r, d)

SpecHandle == InitHandle /\ [][NextHandle]_vars

\* SpecCounter: concurrent creates on a counter document that is absent, disabled,
\* full, or has room for one more number
CounterStarts ==
  {Absent, Counter(FALSE, 9, 1), Counter(FALSE, 7, 1), Counter(TRUE, 9, 1), Counter(TRUE, 8, 1)}

CounterCfgs ==
  {Cfg("index", TRUE, FALSE, BOOLEAN, MaxCalls, FALSE, c) : c \in CounterStarts}
    \cup {Cfg("part", px, FALSE, BOOLEAN, MaxCalls, FALSE, c) :
            px \in BOOLEAN, c \in CounterStarts}

InitCounter ==
  /\ cfg \in CounterCfgs
  /\ InitStore

NextCounter == \E p \in Procs : Create(p) \/ Commit(p)

SpecCounter == InitCounter /\ [][NextCounter]_vars

\* SpecListen: one caller that creates, fetches and edits its instance and calls the
\* listener operations in between
ListenCfgs ==
  {Cfg(rev, TRUE, FALSE, {FALSE}, MaxCalls, FALSE, Counter(TRUE, 7, 1)) :
     rev \in {"index", "part"}}

InitListen ==
  /\ cfg \in ListenCfgs
  /\ InitStore

NextListen ==
  \/ Create(Caller) \/ Commit(Caller) \/ Fetch(Caller) \/ Edit(Caller)
  \/ Subscribe(Caller)

SpecListen == InitListen /\ [][NextListen]_vars

\* SpecQueries: one caller that builds queries from constraint tuples and from search
\* strings
\* the query builders are pure: a behaviour of SpecQueries makes one call
QueryCalls == 1

QueriesCfgs ==
  {Cfg(rev, TRUE, FALSE, {FALSE}, QueryCalls, FALSE, Counter(TRUE, 7, 1)) :
     rev \in {"index", "part"}}

InitQueries ==
  /\ cfg \in QueriesCfgs
  /\ InitStore

NextQueries == CreateQueries(Caller) \/ CreateTokenMapQueries(Caller)

SpecQueries == InitQueries /\ [][NextQueries]_vars

\* SpecAuto: creates of one caller on model classes that declare useAutonumber or do
\* not, with and without the caller's option, on each kind of counter document
AutoCfgs ==
  {[Cfg(rev, TRUE, FALSE, BOOLEAN, MaxCalls, FALSE, c)
      EXCEPT !.useAutonumber = u, !.echo = TRUE] :
     rev \in {"index", "part"}, u \in BOOLEAN, c \in CounterStarts}

InitAuto ==
  /\ cfg \in AutoCfgs
  /\ InitStore

NextAuto == Create(Caller) \/ Commit(Caller)

SpecAuto == InitAuto /\ [][NextAuto]_vars

\* SpecCallBacks: the operations of one caller that passes as callBack nothing, a
\* function, or a value that is no function, truthy or falsy
CallBacksCfgs ==
  {[Cfg(rev, TRUE, TRUE, {FALSE}, MaxCalls, FALSE, Counter(TRUE, 7, 1))
      EXCEPT !.callBacks = {"none", "ok"} \cup NonCallable, !.echo = TRUE] :
     rev \in {"index", "part"}}

InitCallBacks ==
  /\ cfg \in CallBacksCfgs
  /\ InitStore

NextCallBacks == Step(Caller)

SpecCallBacks == InitCallBacks /\ [][NextCallBacks]_vars

\* SpecTxn: one caller that runs its creates inside transactions of its own, one or
\* more creates on each, and commits or aborts the transaction afterwards
TxnCfgs ==
  {[Cfg(rev, TRUE, FALSE, BOOLEAN, MaxCalls, FALSE, Counter(TRUE, 7, 1))
      EXCEPT !.handles = {"caller"}, !.echo = TRUE] :
     rev \in {"index", "part"}}

InitTxn ==
  /\ cfg \in TxnCfgs
  /\ InitStore

NextTxn ==
  \/ Create(Caller) \/ CreateHeld(Caller)
  \/ CallerCommit(Caller) \/ CallerAbort(Caller)

SpecTxn == InitTxn /\ [][NextTxn]_vars

\* SpecUpdates: two call chains that fetch, edit and update a record an earlier create
\* has committed, interleaved at every store access
MaxUpdateCalls == 4   \* operations started in one behaviour of SpecUpdates

UpdatesCfgs ==
  {Cfg(rev, TRUE, FALSE, {FALSE}, MaxUpdateCalls, FALSE, Counter(TRUE, 7, 1)) :
     rev \in {"index", "part"}}

\* the record create({docId: "a", useAutonumber: false}) commits at time 1
Created ==
  toFirestore([DefaultInst EXCEPT !.docId = "a", !.createdAt = 1, !.updatedAt = 1,
                                  !.uid = SystemActor])

InitUpdates ==
  /\ cfg \in UpdatesCfgs
  /\ counter = cfg.start
  /\ primary = [d \in Ids |-> IF d = "a" THEN Created ELSE Absent]
  /\ archive = [d \in Ids |-> Absent]
  /\ children = {}
  /\ now = 1
  /\ inst = [p \in Procs |-> DefaultInst]
  /\ pc = [p \in Procs |-> "idle"]
  /\ call = [p \in Procs |-> IdleCall]
  /\ res = NoRes
  /\ calls = 0
  /\ moved = [d \in Ids |-> Absent]
  /\ issued = << >>

NextUpdates ==
  \E p \in Procs : Fetch(p) \/ Edit(p) \/ Update(p) \/ Commit(p)

SpecUpdates == InitUpdates /\ [][NextUpdates]_vars

\* SpecRestores: two call chains that create, delete and restore on a model class with
\* logicalDelete, interleaved at every store access, with callers that pass no callback
MaxRestoreCalls == 4   \* operations started in one behaviour of SpecRestores

RestoresCfgs ==
  {[Cfg(rev, TRUE, TRUE, {FALSE}, MaxRestoreCalls, FALSE, Counter(TRUE, 7, 1))
      EXCEPT !.callBacks = {"none"}] :
     rev \in {"index", "part"}}

InitRestores ==
  /\ cfg \in RestoresCfgs
  /\ InitStore

NextRestores ==
  \E p \in Procs :
    \/ Create(p) \/ Delete(p) \/ HasChild(p) \/ SourceRead(p)
    \/ Restore(p) \/ Commit(p)

SpecRestores == InitRestores /\ [][NextRestores]_vars

----------------------------------------------------------------------------
(* Properties *)

\* C1: in every reachable state no docId has a record in the primary collection and a
\* record in the archive collection at once
C1_NeverBoth == \A d \in Ids : ~(primary[d].exists /\ archive[d].exists)

\* C2: the codes committed by concurrent autonumbering creates are pairwise different:
\* the k-th create to commit carries the start value plus k, so a create that lost the
\* conflict on the counter committed the number it read after the winner's increment
C2_NoDuplicateCodes ==
  /\ \A j, k \in DOMAIN issued : j # k => issued[j] # issued[k]
  /\ \A k \in DOMAIN issued :
       issued[k] = padStart(Digits(cfg.start.current + k), cfg.start.length)

\* a create committed at its second attempt, after another create had taken a number
C2_LoserCommitted ==
  /\ res.op = "create" /\ res.ok /\ res.attempts = 2
  /\ Logged(res, "counterWrite")
  /\ Len(issued) = 2

\* the allocations a counter admits from its start value
Room == Pow10(cfg.start.length) - 1 - cfg.start.current

\* C3 (amended): under serial execution the n-th allocation yields start + n padded with
\* zeros to width length, in commit order; an attempt fails with Overflow exactly when
\* 10^length - 1 - start allocations were committed before it, so the first attempt to
\* fail is the (10^length - start)-th
C3_SerialAllocation ==
  /\ Len(issued) <= Room
  /\ \A k \in DOMAIN issued :
       /\ issued[k] = padStart(Digits(cfg.start.current + k), cfg.start.length)
       /\ Len(issued[k]) = cfg.start.length
  /\ (res.op = "create" /\ res.err = "Overflow") => Len(issued) = Room
  /\ (res.op = "create" /\ ~res.ok /\ Logged(res, "stampCode")) => Len(issued) < Room

\* C3 as stated: 10^length - start allocations are committed before an attempt fails
\* with Overflow, which makes the failing attempt the (10^length - start + 1)-th
C3_OverflowAfterFullRange ==
  (res.op = "create" /\ res.err = "Overflow") => Len(issued) >= Room + 1

\* the third attempt fails with Overflow after two allocations from current = 7, length = 1
C3_OverflowReached ==
  /\ res.op = "create" /\ res.err = "Overflow"
  /\ cfg.start.current = 7
  /\ Len(issued) = 2

\* C4: in every reachable state the counter document has current <= 10^length - 1
C4_CounterInRange == counter.exists => counter.current <= Pow10(counter.length) - 1

\* the counter stands at its largest value and a create was refused a number
C4_CounterFull ==
  /\ counter.current = Pow10(counter.length) - 1
  /\ res.op = "create" /\ res.err = "Overflow"

\* C5: the counter document changes only in the commit of a create that used the
\* allocator, every such commit adds exactly 1 to current, and no other step (a failing
\* create, fetch, update, delete, restore) changes it
C5_CounterSteps ==
  [][/\ counter' # counter =>
          /\ counter' = [counter EXCEPT !.current = @ + 1]
          /\ res'.op = "create" /\ res'.ok /\ Logged(res', "counterWrite")
     /\ (res'.op = "create" /\ res'.ok /\ Logged(res', "counterWrite")) =>
          counter'.current = counter.current + 1]_vars

\* a create that used the allocator has committed on top of an earlier one
C5_Incremented ==
  /\ res.op = "create" /\ res.ok /\ Logged(res, "counterWrite")
  /\ counter.current = cfg.start.current + 2

\* every a in the log L comes before every b
Ordered(L, a, b) == \A j, k \in DOMAIN L : (L[j] = a /\ L[k] = b) => j < k

\* the logs of the create bodies that stand before their commit or have just ended
CreateLogs ==
  {call[p].log : p \in {q \in Procs : call[q].op = "create"}}
    \cup (IF res.op = "create" THEN {res.log} ELSE {})

\* C6: in one run of the body of create the events come in the order counter read, code
\* stamped, entity write, deferred counter write, callback; the counter write is issued
\* only after the entity write and the callback runs only after the counter write
C6_BodyOrder ==
  /\ \A L \in CreateLogs :
       /\ Ordered(L, "counterRead", "stampCode")
       /\ Ordered(L, "stampCode", "entityWrite")
       /\ Ordered(L, "entityWrite", "counterWrite")
       /\ Ordered(L, "counterWrite", "callBack")
       /\ Ordered(L, "entityWrite", "callBack")
       /\ Logged([log |-> L], "counterWrite") => Logged([log |-> L], "entityWrite")
       /\ (Logged([log |-> L], "callBack") /\ Logged([log |-> L], "counterRead"))
            => Logged([log |-> L], "counterWrite")
  /\ \A p \in Procs : call[p].op = "create" =>
       \A j, k \in DOMAIN call[p].writes :
         (call[p].writes[j].coll = "primary" /\ call[p].writes[k].coll = "counter") => j < k

\* a create went through all five events and committed
C6_AllFiveEvents ==
  /\ res.op = "create" /\ res.ok
  /\ res.log = <<"counterRead", "stampCode", "entityWrite", "counterWrite", "callBack">>

\* C7: the step in which a create, update or delete fails leaves the primary collection,
\* the archive collection and the counter document as they were, and so does every
\* earlier step of the operation: the store changes only in the step that makes an
\* operation succeed
C7_FailureWritesNothing ==
  [][/\ (res'.op \in {"create", "update", "delete"} /\ ~res'.ok) => store' = store
     /\ store' # store => (res'.ok /\ res'.op \in {"create", "update", "delete", "restore"})]_vars

\* a delete failed in its callback, after the archive write and the primary delete were
\* issued on its transaction
C7_FailedAfterStaging ==
  /\ res.op = "delete" /\ ~res.ok /\ res.err = "Callback"
  /\ Logged(res, "archiveWrite") /\ Logged(res, "primaryDelete")
  /\ primary[res.ref].exists

C9_RoundTrip ==
  (res.op = "restore" /\ res.ok) =>
    /\ moved[res.ref].exists
    /\ primary[res.ref] = moved[res.ref]
    /\ ~archive[res.ref].exists

\* a restore brought back a document that a delete had archived
C9_Restored ==
  /\ res.op = "restore" /\ res.ok
  /\ primary[res.ref].exists
  /\ moved[res.ref].exists

\* C10: a restore whose read of the archive finds no record for docId fails with NotFound
\* in that step and goes no further, and the step in which a restore fails leaves both
\* collections as they were
C10_FailedRestore ==
  [][/\ \A p \in Procs :
          (pc[p] = "idle" /\ call'[p].op = "restore") => archive[call'[p].docId].exists
     /\ \A p \in Procs :
          (/\ pc[p] = "idle" /\ res'.proc = p /\ res'.op = "restore"
           /\ res'.arg # NoId /\ ~archive[res'.arg].exists)
          => (~res'.ok /\ res'.err = "NotFound")
     /\ (res'.op = "restore" /\ ~res'.ok) => (primary' = primary /\ archive' = archive)]_vars

\* a restore of a docId that has a primary record and no archive record failed
C10_NothingToRestore ==
  /\ res.op = "restore" /\ res.err = "NotFound"
  /\ primary[res.arg].exists

\* C11: the two writes of an archive move and of a move back reach the store in one
\* step: a step that writes the archive record of a docId removes its primary record, a
\* step that removes the archive record writes the primary record, a logical delete
\* that commits has archived, and a restore that commits has done both
C11_AtomicMoves ==
  [][/\ \A d \in Ids :
          archive'[d] # archive[d] =>
            IF archive'[d].exists
              THEN ~primary'[d].exists /\ archive'[d] = primary[d]
              ELSE primary'[d].exists
     /\ (res'.op = "delete" /\ res'.ok /\ cfg.logicalDelete) =>
          (archive'[res'.ref].exists /\ ~primary'[res'.ref].exists)
     /\ (res'.op = "restore" /\ res'.ok) =>
          (primary'[res'.ref].exists /\ ~archive'[res'.ref].exists)]_vars

\* a restore has moved back a record while another call chain was at work
C11_MovedBack ==
  /\ res.op = "restore" /\ res.ok
  /\ primary[res.ref].exists /\ ~archive[res.ref].exists
  /\ \E p \in Procs : p # res.proc /\ inst[p].docId = res.ref

\* C12: a delete that succeeds leaves no primary record for the docId; with
\* logicalDelete the archive holds the document as it was stored, without it no archive
\* record was written and none exists
C12_DeleteEndState ==
  (res.op = "delete" /\ res.ok) =>
    /\ ~primary[res.ref].exists
    /\ IF cfg.logicalDelete
         THEN archive[res.ref].exists /\ archive[res.ref] = moved[res.ref]
         ELSE ~Logged(res, "archiveWrite") /\ ~archive[res.ref].exists

\* a delete has archived a document that carries a code
C12_Archived ==
  /\ res.op = "delete" /\ res.ok /\ cfg.logicalDelete
  /\ archive[res.ref].exists /\ archive[res.ref].code # NoCode

\* C13: update, delete and hasChild called with a callable or no callback on an
\* instance without docId fail with PreconditionFailed in their first step, whatever the
\* hooks would do: nothing of the body has run, no transaction is open afterwards, and
\* the store and the instance are as before
C13_DocIdRequired ==
  [][\A p \in Procs :
       (pc[p] = "idle" /\ inst[p].docId = NoId) =>
         /\ call'[p].op \notin {"update", "delete", "hasChild"}
         /\ (/\ res'.proc = p /\ res'.op \in {"update", "delete", "hasChild"}
             /\ res'.err # "InvalidArgument")
            => /\ ~res'.ok /\ res'.err = "PreconditionFailed"
               /\ res'.log = << >>
               /\ store' = store /\ inst' = inst]_vars

\* an update was refused for want of a docId while the store holds a document
C13_Refused ==
  /\ res.op = "update" /\ res.err = "PreconditionFailed"
  /\ inst[res.proc].docId = NoId
  /\ \E d \in Ids : primary[d].exists

\* C14: an update fails only for a callback that is no function, a missing docId, a hook
\* or validation that fails, or a transaction that is aborted (by the callback or the
\* store); an update that succeeds has stored the fields of the instance at its docId,
\* with updatedAt the current time and uid the system actor, has called the callback
\* after the write, and returns the reference of that document
C14_UpdateSucceeds ==
  /\ (res.op = "update" /\ ~res.ok) =>
       res.err \in {"InvalidArgument", "PreconditionFailed", "Hook", "Callback", "StoreFailure"}
  /\ (res.op = "update" /\ res.ok) =>
       /\ res.ref = inst[res.proc].docId
       /\ primary[res.ref] = toFirestore(inst[res.proc])
       /\ primary[res.ref].updatedAt = now
       /\ primary[res.ref].uid = SystemActor
       /\ Ordered(res.log, "entityWrite", "callBack")

\* C15: a fetch with an empty docId fails with InvalidArgument, has read nothing and
\* leaves the instance alone; any other fetch returns whether the primary record exists
\* and leaves the instance holding the stored fields if it does, and the defaults of
\* every field, docId included, if it does not; the store is unchanged
C15_FetchLoadsOrResets ==
  [][res'.op = "fetch" =>
       IF res'.arg = NoId
         THEN /\ ~res'.ok /\ res'.err = "InvalidArgument"
              /\ res'.log = << >>
              /\ inst' = inst /\ store' = store
         ELSE /\ res'.ok
              /\ res'.found = primary[res'.arg].exists
              /\ IF primary[res'.arg].exists
                   THEN toFirestore(inst'[res'.proc]) = primary[res'.arg]
                   ELSE inst'[res'.proc] = DefaultInst /\ inst'[res'.proc].docId = NoId
              /\ store' = store]_vars

\* a caller that had created a document fetched a docId without record and was reset
C15_Reset ==
  /\ res.op = "fetch" /\ res.ok /\ ~res.found
  /\ inst[res.proc] = DefaultInst
  /\ \E d \in Ids : primary[d].exists /\ d # res.arg

\* C16: fetchDoc returns the data a fetch of the same docId would load into the
\* instance, or null when there is no record, and changes neither the instance nor the
\* store, also when it fails for an empty docId
C16_FetchDocReadsOnly ==
  [][res'.op = "fetchDoc" =>
       /\ inst' = inst /\ store' = store
       /\ IF res'.arg = NoId
            THEN ~res'.ok /\ res'.err = "InvalidArgument"
            ELSE /\ res'.ok
                 /\ IF primary[res'.arg].exists
                      THEN /\ res'.data = primary[res'.arg]
                           /\ initialize(res'.data) = FetchedInst(inst[res'.proc], primary[res'.arg])
                      ELSE res'.data = Absent]_vars

\* fetchDoc returned the data of a document to a caller that holds another state
C16_ReadBeside ==
  /\ res.op = "fetchDoc" /\ res.ok /\ res.data.exists
  /\ toFirestore(inst[res.proc]) # res.data

\* C17: after a create without autonumbering has succeeded, the stored document carries
\* the docId of the returned reference, which is the caller's docId if one was passed
\* and a generated id otherwise, and its createdAt equals its updatedAt
C17_CreatedAsAsked ==
  (res.op = "create" /\ res.ok /\ ~Logged(res, "counterRead")) =>
    /\ primary[res.ref].exists
    /\ primary[res.ref].docId = res.ref
    /\ IF res.arg # NoId THEN res.ref = res.arg ELSE res.ref \in GenIds
    /\ primary[res.ref].createdAt = primary[res.ref].updatedAt

\* C18: when an operation that was passed the caller's transaction has failed, the
\* writes it had issued on that transaction are never committed: the step that takes the
\* transaction out of the caller's hands leaves the store as it is
C18_FailedNeverCommitted ==
  [][\A p \in Procs :
       (/\ pc[p] = "held" /\ pc'[p] # "held"
        /\ call[p].failed # "none" /\ call[p].writes # << >>)
       => store' = store]_vars

\* C19: an operation that was passed the caller's transaction never stands before a
\* commit of its own, and what it has read it has read through that transaction
C19_ThroughHandle ==
  \A p \in Procs :
    call[p].handle = "caller" =>
      /\ pc[p] # "commit"
      /\ Logged(call[p], "archiveRead") => Key("archive", call[p].ref, 0) \in call[p].reads
      /\ Logged(call[p], "childQuery") =>
           \E r \in DOMAIN Rels : Key("children", call[p].ref, r) \in call[p].reads

\* what the claim lets the allocator answer on counter document c
Refusal(c) ==
  IF ~c.exists THEN "NotFound"
  ELSE IF ~c.status THEN "Disabled"
  ELSE IF c.current + 1 > Pow10(c.length) - 1 THEN "Overflow"
  ELSE "none"

\* C20: whenever a run of the allocator reads the counter document, it fails with
\* NotFound if the document is absent, else with Disabled if status is false, else with
\* Overflow if current + 1 > 10^length - 1, and else stamps the code; a failing run has
\* stamped nothing on the entity, has issued no write, and leaves the counter and the
\* primary collection as they are
C20_AllocatorRefusals ==
  [][\A p \in Procs :
       LET after == IF pc'[p] # "idle" THEN call'[p]
                    ELSE IF res'.proc = p THEN res' ELSE IdleCall
           ran == /\ after.op = "create"
                  /\ Logged(after, "counterRead")
                  /\ pc[p] = "idle" \/ after.attempts > call[p].attempts
       IN ran =>
            IF Refusal(counter) # "none"
              THEN /\ pc'[p] = "idle"
                   /\ ~res'.ok /\ res'.err = Refusal(counter)
                   /\ res'.log = <<"counterRead">>
                   /\ inst'[p] = inst[p]
                   /\ store' = store
              ELSE /\ Logged(after, "stampCode")
                   /\ inst'[p].code = newCode(counter)]_vars

\* a create was refused a number by a disabled counter that is also full
C20_DisabledFirst ==
  /\ res.op = "create" /\ res.err = "Disabled"
  /\ counter.current + 1 > Pow10(counter.length) - 1

\* C21: every call of unsubscribe, subscribe or subscribeDocs fails with Unsupported in
\* its one step, whatever the state of the instance: nothing was read, no transaction is
\* open afterwards, and the store and the instance are as before
C21_ListenersUnsupported ==
  [][res'.op \in {"unsubscribe", "subscribe", "subscribeDocs"} =>
       /\ ~res'.ok /\ res'.err = "Unsupported"
       /\ res'.log = << >>
       /\ store' = store /\ inst' = inst
       /\ call' = call /\ pc' = pc]_vars

\* unsubscribe was refused on an instance that holds a stored document
C21_RefusedOnPersisted ==
  /\ res.op = "unsubscribe" /\ res.err = "Unsupported"
  /\ inst[res.proc].docId # NoId
  /\ primary[inst[res.proc].docId].exists

\* the text that remains of a search string: its code units that are neither
\* whitespace, nor one of ~ * [ ], nor a surrogate code unit
Remaining(text) == SelectSeq(text, LAMBDA ch : ch \notin {" ", "~", "*", "[", "]", "H", "L"})

\* the contiguous 1-character and 2-character substrings of t
Substrings(t) ==
  {SubSeq(t, i, i) : i \in 1..Len(t)} \cup {SubSeq(t, i, i + 1) : i \in 1..(Len(t) - 1)}

\* C22: for every search string that is not blank, createTokenMapQueries returns exactly
\* one `tokenMap.<token> == true` predicate for each contiguous 1-character and
\* 2-character substring of the text that remains after whitespace, ~ * [ ] and surrogate
\* code units were removed, without duplicates, and no token holds a surrogate code unit
C22_TokenPredicates ==
  (res.op = "createTokenMapQueries" /\ ~Blank(res.input)) =>
    /\ res.ok
    /\ \A j, k \in DOMAIN res.output : j # k => res.output[j] # res.output[k]
    /\ {res.output[k] : k \in DOMAIN res.output}
         = {TokenQuery(t) : t \in Substrings(Remaining(res.input))}
    /\ \A k \in DOMAIN res.output :
         \A j \in DOMAIN res.output[k].args[1][2] :
           res.output[k].args[1][2][j] \notin {"H", "L"}

\* the failure the claim gives a constraint tuple, or "none"
TupleError(tuple) ==
  IF tuple[1] \notin {"where", "orderBy", "limit"} THEN "InvalidQueryType"
  ELSE IF tuple[1] = "orderBy" /\ Len(tuple) >= 3 /\ tuple[3] \notin {"asc", "desc"}
    THEN "InvalidArgument"
  ELSE IF tuple[1] = "limit"
          /\ ~(tuple[2].typeof = "number" /\ tuple[2].tenths > 0 /\ tuple[2].tenths % 10 = 0)
    THEN "InvalidArgument"
  ELSE "none"

\* C29: createQueries returns one predicate per constraint tuple, of the tuple's kind
\* and in the order of the tuples, when every tuple is well formed; otherwise it fails
\* with the failure of the first tuple that has an unrecognized tag (InvalidQueryType),
\* an orderBy direction other than asc and desc, or a limit that is no positive integer
\* (InvalidArgument), and produces no result
C29_QueriesInOrder ==
  res.op = "createQueries" =>
    LET bad == {k \in DOMAIN res.input : TupleError(res.input[k]) # "none"}
    IN IF bad = {}
         THEN /\ res.ok
              /\ Len(res.output) = Len(res.input)
              /\ \A k \in DOMAIN res.input : res.output[k].type = res.input[k][1]
         ELSE /\ ~res.ok
              /\ res.err = TupleError(res.input[CHOOSE k \in bad : \A j \in bad : k <= j])
              /\ res.output = << >>

\* C23: hasChild starts at the first declared relation with the docId of the instance,
\* queries one relation per turn in the declared order, returns the relation of the
\* first query that finds a record without a further query, returns false after the
\* query on the last relation found none, and never changes the store
C23_FirstRelation ==
  [][\A p \in Procs :
       /\ (pc[p] = "idle" /\ call'[p].op = "hasChild") =>
            (call'[p].rel = 1 /\ call'[p].ref = inst[p].docId /\ call'[p].log = << >>)
       /\ (/\ pc[p] = "hasChild" /\ call[p].op = "hasChild"
           /\ pc'[p] # "hasChild" \/ call'[p].rel # call[p].rel)
          => LET r == call[p].rel
                 d == call[p].ref
             IN /\ store' = store /\ children' = children
                /\ Len(call[p].log) = r - 1
                /\ call[p].writes = << >>
                /\ IF <<r, d>> \in children
                     THEN /\ res'.proc = p /\ res'.ok /\ res'.found
                          /\ res'.rel = Rels[r]
                          /\ res'.log = [k \in 1..r |-> "childQuery"]
                     ELSE IF r < Len(Rels)
                       THEN pc'[p] = "hasChild" /\ call'[p].rel = r + 1
                       ELSE /\ res'.proc = p /\ res'.ok /\ ~res'.found
                            /\ res'.log = [k \in 1..Len(Rels) |-> "childQuery"]]_vars

\* hasChild returned the second relation after the query on the first found no record
C23_SecondRelation ==
  /\ res.op = "hasChild" /\ res.ok /\ res.found
  /\ res.rel = "invoices"
  /\ <<1, res.ref>> \notin children

\* C24: the check of delete is not covered by the conflict detection of its
\* transaction: a dependent record created by another process after the check of a
\* delete has passed and before the delete commits does not mark the transaction, so
\* that the delete still commits
C24_LateDependentUndetected ==
  [][\A r \in DOMAIN Rels, d \in Ids :
       (<<r, d>> \notin children /\ <<r, d>> \in children') =>
         \A p \in Procs :
           (/\ call[p].op = "delete" /\ call[p].ref = d
            /\ pc[p] \in {"sourceRead", "commit"})
           => call'[p].conflicted = call[p].conflicted]_vars

C26_DeferredCounterWrite ==
  /\ \A p \in Procs :
       (call[p].op = "create" /\ Logged(call[p], "counterRead")) =>
         LET c == call[p]
             cw == {k \in DOMAIN c.writes : c.writes[k].coll = "counter"}
             ew == {k \in DOMAIN c.writes : c.writes[k].coll = "primary"}
         IN /\ Cardinality({k \in DOMAIN c.log : c.log[k] = "counterRead"}) = 1
            /\ c.reads = {Key("counter", NoId, 0)}
            /\ Cardinality(cw) = 1 /\ Cardinality(ew) = 1
            /\ \A k \in cw :
                 /\ c.writes[k].kind = "update"
                 /\ padStart(Digits(c.writes[k].data), counter.length) = inst[p].code
                 /\ \A j \in ew :
                      /\ j < k
                      /\ c.writes[j].data.code = inst[p].code
  /\ (res.op = "create" /\ res.ok /\ Logged(res, "counterWrite")) =>
       primary[res.ref].code = padStart(Digits(counter.current), counter.length)

\* two creates have read the same counter document and each has issued its deferred
\* write on its own transaction
C26_ReadTogether ==
  \A p \in Procs :
    /\ pc[p] = "commit" /\ call[p].op = "create"
    /\ Logged(call[p], "counterWrite")
    /\ inst[p].code = newCode(counter)

\* C27: a body of create calls the allocator exactly when the model class declares
\* useAutonumber and the caller's option is not false; a body that does not call it
\* neither reads nor writes the counter document, leaves the code field of the instance
\* as it was, and fails only in the callback, whatever the counter document is; its
\* commit leaves the counter document alone and is not refused for the counter's sake
C27_AllocatorOnlyIfAsked ==
  [][\A p \in Procs :
       LET after == IF pc'[p] # "idle" THEN call'[p]
                    ELSE IF res'.proc = p THEN res' ELSE IdleCall
           ran == /\ after.op = "create"
                  /\ pc[p] = "idle" \/ after.attempts > call[p].attempts
                  /\ pc'[p] # "idle" \/ res'.err # "Hook"
           invoked == Logged(after, "counterRead")
       IN /\ ran =>
               /\ invoked <=> (cfg.useAutonumber /\ after.useAuto)
               /\ ~invoked =>
                    /\ ~Logged(after, "counterWrite") /\ ~Logged(after, "stampCode")
                    /\ inst'[p].code = inst[p].code
                    /\ counter' = counter
                    /\ pc'[p] = "idle" => res'.err = "Callback"
                    /\ pc'[p] # "idle" =>
                         /\ call'[p].reads = {}
                         /\ \A k \in DOMAIN call'[p].writes : call'[p].writes[k].coll # "counter"
          /\ (/\ pc[p] = "commit" /\ pc'[p] = "idle"
              /\ call[p].op = "create" /\ ~Logged(call[p], "counterRead"))
             => /\ counter' = counter
                /\ res'.ok \/ res'.err = "StoreFailure"
                /\ res'.ok => primary'[res'.ref].code = inst[p].code]_vars

\* a create that left the allocator out has succeeded where no counter document exists,
\* on a model class that declares useAutonumber
C27_CreatedWithoutCounter ==
  /\ res.op = "create" /\ res.ok /\ ~res.useAuto
  /\ cfg.useAutonumber /\ ~counter.exists
  /\ primary[res.ref].exists

\* C28: a create, update or delete that is passed a callBack which is no function,
\* whatever the value, fails with InvalidArgument in its first step: no hook and nothing
\* of the body has run, no transaction is open afterwards, and the store and the instance
\* are as before
C28_CallBackMustBeCallable ==
  [][/\ \A p \in Procs : call'[p].cb \notin NonCallable
     /\ (res'.op \in {"create", "update", "delete"} /\ res'.cb \in NonCallable) =>
          /\ ~res'.ok /\ res'.err = "InvalidArgument"
          /\ res'.log = << >>
          /\ store' = store /\ inst' = inst]_vars

\* C30: an update that commits does not bring a primary record into existence: the
\* record of its docId exists when its transaction is committed
C30_UpdateKeepsPersisted ==
  [][(res'.op = "update" /\ res'.ok) => primary[res'.ref].exists]_vars

\* C31: a delete that succeeds leaves its instance without docId, so that an update or a
\* delete the caller starts on that instance right after it fails with
\* PreconditionFailed in its first step and leaves the store as it was
C31_DetachedAfterDelete ==
  [][/\ (res'.op = "delete" /\ res'.ok) => inst'[res'.proc].docId = NoId
     /\ \A p \in Procs :
          LET started == IF pc'[p] # "idle" THEN call'[p].op ELSE res'.op
          IN (/\ res.op = "delete" /\ res.ok /\ res.proc = p
              /\ pc[p] = "idle" /\ calls' = calls + 1
              /\ pc'[p] # "idle" \/ res'.proc = p
              /\ started \in {"update", "delete"})
             => /\ pc'[p] = "idle"
                /\ res'.err = "PreconditionFailed"
                /\ store' = store]_vars

\* C32: a second autonumbering create on the caller's transaction, after a first one
\* has returned on it, succeeds where the counter has room and nothing else of the call
\* fails, and stamps the code that follows the first one's; the commit of a transaction
\* that holds the writes of two autonumbering creates advances current by 2
C32_TwoCreatesOneTransaction ==
  [][\A p \in Procs :
       LET cw == {k \in DOMAIN call[p].writes : call[p].writes[k].coll = "counter"}
       IN /\ (/\ pc[p] = "held" /\ pc'[p] = "held" /\ calls' = calls + 1
              /\ call[p].failed = "none" /\ Logged(call[p], "counterWrite")
              /\ res'.op = "create" /\ res'.useAuto
              /\ res'.err \notin {"InvalidArgument", "Hook", "Callback"}
              /\ counter.current + 2 <= Pow10(counter.length) - 1)
             => /\ res'.ok
                /\ inst'[p].code = padStart(Digits(counter.current + 2), counter.length)
          /\ (pc[p] = "held" /\ pc'[p] = "idle" /\ res'.ok /\ Cardinality(cw) = 2)
             => counter'.current = counter.current + 2]_vars

\* the records of the primary and the archive collection that carry a code
Coded ==
  {<<"primary", d>> : d \in {e \in Ids : primary[e].exists /\ primary[e].code # NoCode}}
    \cup {<<"archive", d>> : d \in {e \in Ids : archive[e].exists /\ archive[e].code # NoCode}}

\* the code record x carries
CodeOf(x) == IF x[1] = "primary" THEN primary[x[2]].code ELSE archive[x[2]].code

\* C33: in every reachable state no two records of the primary and the archive
\* collection carry the same code, and every stored code is the code of a number up to
\* the current of the counter document
C33_CodesUniqueAndIssued ==
  /\ \A x, y \in Coded : x # y => CodeOf(x) # CodeOf(y)
  /\ \A x \in Coded :
       /\ counter.exists
       /\ \E n \in 1..counter.current : CodeOf(x) = padStart(Digits(n), counter.length)

\* C34: a create that fails in the step that ran its body, in the allocator or in the
\* callback, leaves the instance as it was before the call: docId, code, createdAt,
\* updatedAt and uid carry no value of the document that was not committed
C34_FailedCreateLeavesInstance ==
  [][\A p \in Procs :
       (res'.proc = p /\ res'.op = "create" /\ ~res'.ok /\ pc[p] = "idle")
       => inst'[p] = inst[p]]_vars

\* C35: a restore that commits leaves every primary record that existed before its
\* commit as it was
C35_RestoreKeepsPrimary ==
  [][(res'.op = "restore" /\ res'.ok) =>
       \A d \in Ids : primary[d].exists => primary'[d] = primary[d]]_vars

\* C36: a delete that commits leaves every archive record that existed before its
\* commit as it was
C36_DeleteKeepsArchive ==
  [][(res'.op = "delete" /\ res'.ok) =>
       \A d \in Ids : archive[d].exists => archive'[d] = archive[d]]_vars

\* C37: an update that commits does not replace a committed change it has not read.
\* The callers change the field val from 0 to 1 only, so an instance that still holds 0
\* has not read a record that holds 1: no committing update turns a stored 1 into 0
C37_NoLostUpdate ==
  [][(res'.op = "update" /\ res'.ok) =>
       ~(/\ primary[res'.ref].exists
         /\ primary[res'.ref].val = 1
         /\ primary'[res'.ref].val = 0)]_vars

\* C38: the record a logical delete writes to the archive is the primary record its
\* transaction read, whatever the fields of the calling instance hold: while the delete
\* stands before its commit unconflicted, the archive write carries the stored record,
\* and once committed the archive holds the record the commit removed
C38_ArchivesStoredRecord ==
  /\ \A p \in Procs :
       (call[p].op = "delete" /\ pc[p] = "commit" /\ ~call[p].conflicted) =>
         \A k \in DOMAIN call[p].writes :
           call[p].writes[k].coll = "archive" =>
             call[p].writes[k].data = primary[call[p].ref]
  /\ (res.op = "delete" /\ res.ok /\ Logged(res, "archiveWrite")) =>
       archive[res.ref] = moved[res.ref]

\* a delete has archived a record while its instance held an edit that no update had
\* stored: the archive record does not carry the edit
C38_EditNotArchived ==
  /\ res.op = "delete" /\ res.ok /\ Logged(res, "archiveWrite")
  /\ inst[res.proc].docId = res.ref
  /\ inst[res.proc].val = 1
  /\ archive[res.ref].exists /\ archive[res.ref].val = 0

\* C39: a restore commits only while the archive record it read is still the one in the
\* store: at its commit the archive record exists and is the record it writes to the
\* primary collection, so that of two restores that read the same record at most one
\* commits
C39_RestoreReadsInScope ==
  [][(res'.op = "restore" /\ res'.ok) =>
       /\ archive[res'.ref].exists
       /\ primary'[res'.ref] = archive[res'.ref]]_vars

====
